---- MODULE Spec2Model ----
(***************************************************************************)
(* Model of the markdown semantic search engine (service.py, main.py).     *)
(*                                                                         *)
(* SpecChunk : MarkdownSemanticSearch.chunk_markdown, one loop iteration   *)
(*             per step, over every short text of a four-character         *)
(*             alphabet (letter, blank, full stop, newline).               *)
(* Spec      : the service's handlers add_markdown_file, search and        *)
(*             get_stats, one call per step, over a small set of files.    *)
(* SpecSteps : add_markdown_file one SQL statement per step (the           *)
(*             connection autocommits each statement), with a reader and   *)
(*             an exception possible between any two statements.           *)
(* SpecMain  : main.process_documents, one input per step.                 *)
(* SpecLong  : chunk_markdown again, over texts longer than the search     *)
(*             window (105 characters with up to three breaks in them).    *)
(*                                                                         *)
(* Real numbers (tf, idf, tfidf, similarity) are kept in thousandths.      *)
(* Texts are sequences of one-character strings.  Offsets are Python's:    *)
(* 0-based, half-open, negative offsets counted from the end of the text.  *)
(***************************************************************************)
EXTENDS Integers, Sequences, FiniteSets, TLC

VARIABLES
    text,          \* chunk_markdown: the text (raw at the call, normalized after)
    chunk_size,    \* chunk_markdown: parameter
    overlap,       \* chunk_markdown: parameter
    start,         \* chunk_markdown: the cursor
    chunks,        \* chunk_markdown: the list of chunks emitted so far
    cpc,           \* chunk_markdown: "idle", "call", "loop", "done", "error", "diverged"
    segs,          \* history: one record per loop iteration executed
    tbl_chunks,    \* table chunks: rows id, source_file, chunk_text, chunk_index, token_count
    tfidf_vectors, \* table tfidf_vectors: rows chunk_id, term, tf, tfidf
    idf_scores,    \* table idf_scores: rows term, doc_frequency, idf_score
    chunks_seq,    \* sequence chunks_seq: the next chunk id
    ret,           \* the last call of a handler: what was called and how it ended
    ncalls,        \* number of documents handed to add_markdown_file so far
    apc,           \* add_markdown_file run statement by statement: the next statement
    pend,          \* add_markdown_file run statement by statement: its locals
    ppc,           \* process_documents: "idle" or "loop"
    files_to_process, \* process_documents: the (type, path) pairs still to do
    update_mode,   \* process_documents: parameter
    loaded_count,  \* process_documents: local
    clock,         \* time.time() * 1000, as last read
    indexed        \* history: the input paths indexed so far

chunkVars == <<text, chunk_size, overlap, start, chunks, cpc, segs>>

storeVars == <<tbl_chunks, tfidf_vectors, idf_scores, chunks_seq>>

stepVars == <<apc, pend>>

mainVars == <<ppc, files_to_process, update_mode, loaded_count, clock, indexed>>

vars == <<text, chunk_size, overlap, start, chunks, cpc, segs,
          tbl_chunks, tfidf_vectors, idf_scores, chunks_seq, ret, ncalls,
          apc, pend, ppc, files_to_process, update_mode, loaded_count,
          clock, indexed>>

(***************************************************************************)
(* Bounds                                                                  *)
(***************************************************************************)
MaxLen == 6

MaxChunkSize == 5

Alphabet == {"a", " ", ".", "\n"}

RECURSIVE TextsOfLen(_)
TextsOfLen(n) ==
    IF n = 0 THEN {<<>>}
    ELSE {Append(t, c) : t \in TextsOfLen(n - 1), c \in Alphabet}

Texts == UNION {TextsOfLen(n) : n \in 0..MaxLen}

(***************************************************************************)
(* Python and regular-expression primitives                                *)
(***************************************************************************)
Min(a, b) == IF a < b THEN a ELSE b

Max(a, b) == IF a > b THEN a ELSE b

Abs(x) == IF x < 0 THEN -x ELSE x

\* \s of the re module, on the alphabet
IsSpace(c) == c \in {" ", "\n", "\t", "\r"}

\* [.!?]
IsPunct(c) == c \in {".", "!", "?"}

\* a slice bound as Python resolves it against a sequence of length n
PyIndex(i, n) == IF i < 0 THEN Max(i + n, 0) ELSE Min(i, n)

\* s[a:b]
PySlice(s, a, b) ==
    LET lo == PyIndex(a, Len(s))
        hi == PyIndex(b, Len(s))
    IN  IF lo >= hi THEN <<>> ELSE SubSeq(s, lo + 1, hi)

RECURSIVE LStrip(_)
LStrip(s) ==
    IF s = <<>> THEN s
    ELSE IF IsSpace(Head(s)) THEN LStrip(Tail(s)) ELSE s

RECURSIVE RStrip(_)
RStrip(s) ==
    IF s = <<>> THEN s
    ELSE IF IsSpace(s[Len(s)]) THEN RStrip(SubSeq(s, 1, Len(s) - 1)) ELSE s

\* str.strip()
Strip(s) == RStrip(LStrip(s))

\* last index of the maximal whitespace run that starts at index i (1-based)
RECURSIVE RunEnd(_, _)
RunEnd(s, i) ==
    IF i + 1 <= Len(s) /\ IsSpace(s[i + 1]) THEN RunEnd(s, i + 1) ELSE i

NewlinesIn(s, i, j) == {k \in i..j : s[k] = "\n"}

\* first index of the maximal whitespace run that holds index i (1-based)
RunStart(s, i) ==
    CHOOSE j \in 1..i :
        /\ \A m \in j..i : IsSpace(s[m])
        /\ j = 1 \/ ~IsSpace(s[j - 1])

\* the match of \n\s*\n\s*\n+ that holds index i, as <<first, last>>, or
\* <<>>: a match starts at the first newline of a whitespace run that holds
\* three newlines or more and, the quantifiers being greedy, ends with the
\* last newline of that run
MatchAt(s, i) ==
    IF ~IsSpace(s[i]) THEN <<>>
    ELSE LET nl == NewlinesIn(s, RunStart(s, i), RunEnd(s, i))
         IN  IF Cardinality(nl) < 3 THEN <<>>
             ELSE LET first == CHOOSE k \in nl : \A m \in nl : k <= m
                      last  == CHOOSE k \in nl : \A m \in nl : m <= k
                  IN  IF first <= i /\ i <= last THEN <<first, last>>
                      ELSE <<>>

\* re.sub(r'\n\s*\n\s*\n+', '\n\n', text) on s[lo..hi]: a match is
\* replaced where it starts, the rest of it is dropped, and every other
\* character is kept
RECURSIVE NormalizeRange(_, _, _)
NormalizeRange(s, lo, hi) ==
    IF lo > hi THEN <<>>
    ELSE IF lo = hi
         THEN LET m == MatchAt(s, lo)
              IN  IF m = <<>> THEN <<s[lo]>>
                  ELSE IF m[1] = lo THEN <<"\n", "\n">> ELSE <<>>
         ELSE NormalizeRange(s, lo, (lo + hi) \div 2)
                  \o NormalizeRange(s, (lo + hi) \div 2 + 1, hi)

Normalize(s) == NormalizeRange(s, 1, Len(s))

\* m.end() of every match of re.finditer(r'\n\n', w): leftmost, non-overlapping
RECURSIVE ParagraphEnds(_, _)
ParagraphEnds(w, i) ==
    IF i + 1 > Len(w) THEN {}
    ELSE IF w[i] = "\n" /\ w[i + 1] = "\n"
         THEN {i + 1} \cup ParagraphEnds(w, i + 2)
         ELSE ParagraphEnds(w, i + 1)

\* m.end() of every match of re.finditer(r'[.!?]\s', w)
SentenceEnds(w) ==
    {i + 1 : i \in {k \in 1..(Len(w) - 1) : IsPunct(w[k]) /\ IsSpace(w[k + 1])}}

\* m.start() of every match of re.finditer(r'\s', w)
WordEnds_Starts(w) == {i - 1 : i \in {k \in 1..Len(w) : IsSpace(w[k])}}

\* m.end() of every match of re.finditer(r'\s', w)
WordEnds(w) == {i \in 1..Len(w) : IsSpace(w[i])}

\* the first match of the window, whatever its distance: matches[0]
Closest_First(ends, search_start, end) ==
    CHOOSE e \in ends : \A f \in ends : e <= f

\* min(matches, key=lambda m: abs((search_start + m.end()) - end)): the first
\* (leftmost) of the matches at the least distance
Closest(ends, search_start, end) ==
    CHOOSE e \in ends :
        \A f \in ends :
            \/ Abs((search_start + e) - end) < Abs((search_start + f) - end)
            \/ /\ Abs((search_start + e) - end) = Abs((search_start + f) - end)
               /\ e <= f

\* half-width of the window searched for a natural break
Window == 50

\* the boundary detection of one iteration: the snapped end
SnapEnd(txt, st, end) ==
    LET search_start == Max(end - Window, st)
        search_end   == Min(end + Window, Len(txt))
        window       == PySlice(txt, search_start, search_end)
        para         == ParagraphEnds(window, 1)
        sent         == SentenceEnds(window)
        word         == WordEnds(window)
    IN  IF para # {} THEN search_start + Closest(para, search_start, end)
        ELSE IF sent # {} THEN search_start + Closest(sent, search_start, end)
        ELSE IF word # {} THEN search_start + Closest(word, search_start, end)
        ELSE end

\* the end of the segment that starts at st
SegmentEnd(txt, st, size) ==
    LET end == Min(st + size, Len(txt))
    IN  IF end < Len(txt) THEN SnapEnd(txt, st, end) ELSE end

\* the validation with the last test off by one (overlap = chunk_size accepted)
ValidParams_OverlapEqual(size, ov) == ~(size <= 0) /\ ~(ov < 0) /\ ~(ov > size)

\* the parameter validation
ValidParams(size, ov) == ~(size <= 0) /\ ~(ov < 0) /\ ~(ov >= size)

\* the cursor taken one character further back than the overlap
NextStart_OneMore(end, ov) == end - ov - 1

\* start = end - overlap
NextStart(end, ov) == end - ov

(***************************************************************************)
(* chunk_markdown as a function (what add_markdown_file calls)             *)
(***************************************************************************)
\* the while loop from cursor st, acc being the chunks so far and visited
\* the cursors iterations have started from; status "diverged" stands for a
\* loop that is back at a visited cursor and so never returns
RECURSIVE ChunkLoop(_, _, _, _, _, _)
ChunkLoop(txt, size, ov, st, acc, visited) ==
    IF st \in visited THEN [status |-> "diverged", chunks |-> acc]
    ELSE LET end   == SegmentEnd(txt, st, size)
             chunk == Strip(PySlice(txt, st, end))
             acc2  == IF chunk # <<>> THEN Append(acc, chunk) ELSE acc
             next  == NextStart(end, ov)
         IN  IF end >= Len(txt) \/ next >= Len(txt)
             THEN [status |-> "done", chunks |-> acc2]
             ELSE ChunkLoop(txt, size, ov, next, acc2, visited \cup {st})

ChunkMarkdown(raw, size, ov) ==
    LET txt == Normalize(raw)
    IN  IF ~ValidParams(size, ov) THEN [status |-> "error", chunks |-> <<>>]
        ELSE IF ~(0 < Len(txt)) THEN [status |-> "done", chunks |-> <<>>]
        ELSE ChunkLoop(txt, size, ov, 0, <<>>, {})

(***************************************************************************)
(* _tokenize                                                               *)
(***************************************************************************)
UpperCase == <<"A","B","C","D","E","F","G","H","I","J","K","L","M",
               "N","O","P","Q","R","S","T","U","V","W","X","Y","Z">>

LowerCase == <<"a","b","c","d","e","f","g","h","i","j","k","l","m",
               "n","o","p","q","r","s","t","u","v","w","x","y","z">>

\* [a-z]
IsLower(c) == c \in {LowerCase[i] : i \in 1..Len(LowerCase)}

\* \w, on the characters the model uses
IsWordChar(c) ==
    \/ IsLower(c)
    \/ c \in {UpperCase[i] : i \in 1..Len(UpperCase)}
    \/ c \in {"0", "1", "2", "3", "4", "5", "6", "7", "8", "9", "_"}

\* str.lower(), one character
Lower(c) ==
    IF c \in {UpperCase[i] : i \in 1..Len(UpperCase)}
    THEN LowerCase[CHOOSE i \in 1..Len(UpperCase) : UpperCase[i] = c]
    ELSE c

LowerText(s) == [i \in 1..Len(s) |-> Lower(s[i])]

stop_words == {
    <<"t","h","e">>, <<"a">>, <<"a","n">>, <<"a","n","d">>, <<"o","r">>,
    <<"b","u","t">>, <<"i","n">>, <<"o","n">>, <<"a","t">>, <<"t","o">>,
    <<"f","o","r">>, <<"o","f">>, <<"w","i","t","h">>, <<"b","y">>,
    <<"f","r","o","m">>, <<"i","s">>, <<"a","r","e">>, <<"w","a","s">>,
    <<"w","e","r","e">>, <<"b","e">>, <<"b","e","e","n">>,
    <<"b","e","i","n","g">>, <<"h","a","v","e">>, <<"h","a","s">>,
    <<"h","a","d">>, <<"d","o">>, <<"d","o","e","s">>, <<"d","i","d">>,
    <<"w","i","l","l">>, <<"w","o","u","l","d">>,
    <<"s","h","o","u","l","d">>, <<"c","o","u","l","d">>, <<"m","a","y">>,
    <<"m","i","g","h","t">>, <<"m","u","s","t">>, <<"c","a","n">>,
    <<"t","h","i","s">>, <<"t","h","a","t">>, <<"t","h","e","s","e">>,
    <<"t","h","o","s","e">>, <<"i","t">>, <<"i","t","s">>,
    <<"t","h","e","y">>, <<"t","h","e","m">>, <<"t","h","e","i","r">>}

\* the maximal runs of \w characters of s from index i on, cur being the run
\* in progress: \b holds only at the two ends of such a run
RECURSIVE WordRuns(_, _, _)
WordRuns(s, i, cur) ==
    IF i > Len(s) THEN (IF cur = <<>> THEN <<>> ELSE <<cur>>)
    ELSE IF IsWordChar(s[i]) THEN WordRuns(s, i + 1, Append(cur, s[i]))
    ELSE (IF cur = <<>> THEN <<>> ELSE <<cur>>) \o WordRuns(s, i + 1, <<>>)

\* \b[a-z]{3,}\b matches a run whole or not at all
IsToken(w) == Len(w) >= 3 /\ \A i \in 1..Len(w) : IsLower(w[i])

\* re.findall(r'\b[a-z]{3,}\b', text.lower()) without the stop words
Tokenize(txt) ==
    SelectSeq(WordRuns(LowerText(txt), 1, <<>>),
              LAMBDA w : IsToken(w) /\ w \notin stop_words)

(***************************************************************************)
(* Term weights.  A tf is the exact fraction num/den.  An idf, a tfidf, a  *)
(* magnitude and a similarity are fixed-point numbers in thousandths,      *)
(* truncated; ln comes from a table of ln(k) in thousandths.               *)
(***************************************************************************)
LnTable == <<0, 693, 1099, 1386, 1609, 1792, 1946, 2079, 2197, 2303,
             2398, 2485, 2565, 2639, 2708, 2773, 2833, 2890, 2944, 2996,
             3045, 3091, 3135, 3178, 3219, 3258, 3296, 3332, 3367, 3401,
             3434, 3466, 3497, 3526, 3555, 3584, 3611, 3638, 3664, 3689>>

RECURSIVE Gcd(_, _)
Gcd(a, b) == IF b = 0 THEN a ELSE Gcd(b, a % b)

\* LN(total / doc_freq): the division is DuckDB's, which does not truncate
LnRatio(total, doc_freq) ==
    LET g == Gcd(total, doc_freq)
    IN  LnTable[total \div g] - LnTable[doc_freq \div g]

\* floor of the square root
RECURSIVE SqrtFrom(_, _)
SqrtFrom(x, r) ==
    LET n == (r + x \div r) \div 2
    IN  IF n >= r THEN r ELSE SqrtFrom(x, n)

Sqrt(x) == IF x = 0 THEN 0 ELSE SqrtFrom(x, x)

\* the sum of f[x] over the x in S
RECURSIVE Sum(_, _)
Sum(f, S) ==
    IF S = {} THEN 0
    ELSE LET x == CHOOSE y \in S : TRUE
         IN  f[x] + Sum(f, S \ {x})

Count(tokens, term) == Cardinality({i \in 1..Len(tokens) : tokens[i] = term})

TermsOf(tokens) == {tokens[i] : i \in 1..Len(tokens)}

\* one entry of _calculate_tf_batch: Counter(tokens), each count over len(tokens)
CalculateTf(tokens) ==
    [term \in TermsOf(tokens) |->
        [num |-> Count(tokens, term), den |-> Len(tokens)]]

\* a tf as a fixed-point number (the tfidf a row is inserted with)
TfValue(tf) == (tf.num * 1000) \div tf.den

\* tf * idf
TfTimes(tf, idf) == (tf.num * idf) \div tf.den

(***************************************************************************)
(* add_markdown_file, statement by statement                               *)
(***************************************************************************)
\* the rows of INSERT INTO chunks, ids drawn from chunks_seq
ChunkRows(file_path, chunkList, seq) ==
    {[id |-> seq + i - 1,
      source_file |-> file_path,
      chunk_text |-> chunkList[i],
      chunk_index |-> i - 1,
      token_count |-> Len(Tokenize(chunkList[i]))] : i \in 1..Len(chunkList)}

\* tfidf_data: one row per chunk and term, tfidf starting as tf
TfidfData(chunkList, seq) ==
    UNION {{[chunk_id |-> seq + i - 1,
             term |-> t,
             tf |-> CalculateTf(Tokenize(chunkList[i]))[t],
             tfidf |-> TfValue(CalculateTf(Tokenize(chunkList[i]))[t])] :
                t \in TermsOf(Tokenize(chunkList[i]))} : i \in 1..Len(chunkList)}

\* COUNT(DISTINCT chunk_id) of a term's group
DocFreq(tv, t) == Cardinality({r.chunk_id : r \in {x \in tv : x.term = t}})

\* the aggregation with the table's row count left out of the logarithm
IdfAggregate_NoTotal(tv, total_docs) ==
    {[term |-> t,
      doc_frequency |-> DocFreq(tv, t),
      idf_score |-> LnRatio(DocFreq(tv, t), DocFreq(tv, t))] :
        t \in {r.term : r \in tv}}

\* SELECT term, COUNT(DISTINCT chunk_id), LN(? / COUNT(DISTINCT chunk_id))
\* FROM tfidf_vectors GROUP BY term
IdfAggregate(tv, total_docs) ==
    {[term |-> t,
      doc_frequency |-> DocFreq(tv, t),
      idf_score |-> LnRatio(total_docs, DocFreq(tv, t))] :
        t \in {r.term : r \in tv}}

\* INSERT OR IGNORE: a term that has a row keeps it
InsertOrIgnore(idf, rows) ==
    idf \cup {n \in rows : \A r \in idf : r.term # n.term}

\* INSERT OR REPLACE INTO idf_scores
InsertOrReplace(idf, rows) ==
    {r \in idf : \A n \in rows : n.term # r.term} \cup rows

IdfOf(idf, t) == (CHOOSE r \in idf : r.term = t).idf_score

\* UPDATE tfidf_vectors SET tfidf = tf * (SELECT idf_score ...)
UpdateTfidf(tv, idf) ==
    {[r EXCEPT !.tfidf = TfTimes(r.tf, IdfOf(idf, r.term))] : r \in tv}

\* _update_idf_scores on tables ct, tv, idf: the new tfidf_vectors and idf_scores
UpdateIdfScores(ct, tv, idf) ==
    LET total_docs == Cardinality(ct)
    IN  IF total_docs = 0
        THEN [tfidf_vectors |-> tv, idf_scores |-> idf]
        ELSE LET idf2 == InsertOrReplace(idf, IdfAggregate(tv, total_docs))
             IN  [tfidf_vectors |-> UpdateTfidf(tv, idf2), idf_scores |-> idf2]

(***************************************************************************)
(* The files on disk, the parameters and the queries the model draws from  *)
(***************************************************************************)
ExistingFiles == {"a.md", "b.md", "c.md", "docs/b.md"}

\* a.md: "cat dog. cat owl"   b.md, docs/b.md: "The owl"   c.md: "an. the"
FileText(p) ==
    CASE p = "a.md" ->
           <<"c","a","t"," ","d","o","g","."," ","c","a","t"," ","o","w","l">>
      [] p \in {"b.md", "docs/b.md"} -> <<"T","h","e"," ","o","w","l">>
      [] p = "c.md" -> <<"a","n","."," ","t","h","e">>

\* the paths add_markdown_file is called with directly
Paths == {"a.md", "b.md", "c.md", "missing.md"}

\* what process_documents is given: a URL, a file, a directory (holding
\* docs/b.md) and a path that does not exist
Urls == {"http://h/a.md"}

Dirs == {"docs"}

InputPaths == Urls \cup Dirs \cup {"a.md", "missing.md"}

MaxInputs == 2

RECURSIVE ListsOfLen(_)
ListsOfLen(n) ==
    IF n = 0 THEN {<<>>}
    ELSE {Append(l, p) : l \in ListsOfLen(n - 1), p \in InputPaths}

InputLists == UNION {ListsOfLen(n) : n \in 0..MaxInputs}

MaxClock == 2

\* (chunk_size, overlap): the defaults, two small valid pairs and an invalid one
AddParams == {<<500, 100>>, <<6, 1>>, <<8, 2>>, <<4, 4>>}

\* "cat", "owl", "cat dog", "cat owl", "cat cat", "zebra", "zebra zebra",
\* "the an"
Queries == {
    <<"c","a","t">>, <<"o","w","l">>, <<"c","a","t"," ","d","o","g">>,
    <<"c","a","t"," ","o","w","l">>, <<"c","a","t"," ","c","a","t">>,
    <<"z","e","b","r","a">>,
    <<"z","e","b","r","a"," ","z","e","b","r","a">>,
    <<"t","h","e"," ","a","n">>}

MaxAdds == 2

MaxTopK == 2

(***************************************************************************)
(* add_markdown_file as one call                                           *)
(***************************************************************************)
\* everything after the file is read, on tables ct, tv, idf and sequence
\* value seq: how the call ends and the tables it leaves.  "raised":
\* chunk_markdown raised before any statement ran; "hung": chunk_markdown
\* never returned
AddContentResult(file_path, content, size, ov, ct, tv, idf, seq) ==
    LET same(status) == [status |-> status, tbl_chunks |-> ct,
                         tfidf_vectors |-> tv, idf_scores |-> idf,
                         chunks_seq |-> seq]
        r == ChunkMarkdown(content, size, ov)
    IN  IF r.status = "error" THEN same("raised")
        ELSE IF r.status = "diverged" THEN same("hung")
        ELSE LET ct2 == ct \cup ChunkRows(file_path, r.chunks, seq)
                 tv2 == tv \cup TfidfData(r.chunks, seq)
                 upd == UpdateIdfScores(ct2, tv2, idf)
             IN  [status |-> "ok", tbl_chunks |-> ct2,
                  tfidf_vectors |-> upd.tfidf_vectors,
                  idf_scores |-> upd.idf_scores,
                  chunks_seq |-> seq + Len(r.chunks)]

\* the whole call; open() raises for a path that is not a file
AddMarkdownFileResult(file_path, size, ov, ct, tv, idf, seq) ==
    IF file_path \notin ExistingFiles
    THEN [status |-> "raised", tbl_chunks |-> ct, tfidf_vectors |-> tv,
          idf_scores |-> idf, chunks_seq |-> seq]
    ELSE AddContentResult(file_path, FileText(file_path), size, ov,
                          ct, tv, idf, seq)

(***************************************************************************)
(* search                                                                  *)
(***************************************************************************)
\* query_tf: Counter(query_tokens), each count over len(query_tokens)
QueryTf(query_tokens) ==
    [term \in TermsOf(query_tokens) |->
        [num |-> Count(query_tokens, term), den |-> Len(query_tokens)]]

\* the IDF lookup is prepared with one placeholder per query token and run
\* with one parameter per distinct term: the statement runs only when the
\* two counts agree, and raises otherwise
LookupBinds(query_tokens) ==
    Len(query_tokens) = Cardinality(TermsOf(query_tokens))

\* dot_product / (query_mag * chunk_magnitude); a division by zero is NULL
Similarity(dot_product, query_mag, chunk_magnitude) ==
    IF query_mag = 0 \/ chunk_magnitude = 0 THEN 0
    ELSE (((dot_product * 1000) \div query_mag) * 1000) \div chunk_magnitude

\* the chunk_scores CTE joined to chunks, WHERE chunk_magnitude > 0
ChunkScores(ct, tv, terms, query_mag) ==
    LET rowsOf(c)  == {r \in tv : r.chunk_id = c /\ r.term \in terms}
        dot(c)     == Sum([r \in rowsOf(c) |-> r.tfidf], rowsOf(c))
        mag(c)     == Sqrt(Sum([r \in rowsOf(c) |-> r.tfidf * r.tfidf],
                               rowsOf(c)))
    IN  {[id |-> c.id,
          chunk_text |-> c.chunk_text,
          similarity |-> Similarity(dot(c.id), query_mag, mag(c.id)),
          source_file |-> c.source_file] :
            c \in {x \in ct : rowsOf(x.id) # {} /\ mag(x.id) > 0}}

\* the rows sorted the other way round: ORDER BY similarity ASC LIMIT k
RECURSIVE Ranked_Ascending(_, _)
Ranked_Ascending(cands, k) ==
    IF k <= 0 \/ cands = {} THEN {<<>>}
    ELSE UNION {{<<m>> \o s : s \in Ranked_Ascending(cands \ {m}, k - 1)} :
                   m \in {c \in cands :
                             \A d \in cands : d.similarity >= c.similarity}}

\* ORDER BY similarity DESC LIMIT k: every order the rows can come back in
\* (rows of equal similarity come in any order)
RECURSIVE Ranked(_, _)
Ranked(cands, k) ==
    IF k <= 0 \/ cands = {} THEN {<<>>}
    ELSE UNION {{<<m>> \o s : s \in Ranked(cands \ {m}, k - 1)} :
                   m \in {c \in cands :
                             \A d \in cands : d.similarity <= c.similarity}}

\* every way the call can end on tables ct, tv, idf
SearchOutcomes(query, top_k, ct, tv, idf) ==
    LET query_tokens == Tokenize(query)
        query_tf     == QueryTf(query_tokens)
        found        == {r \in idf : r.term \in DOMAIN query_tf}
        query_vector == [t \in {r.term : r \in found} |->
                            TfTimes(query_tf[t], IdfOf(idf, t))]
        query_mag    == Sqrt(Sum([t \in DOMAIN query_vector |->
                                     query_vector[t] * query_vector[t]],
                                 DOMAIN query_vector))
        empty        == [status |-> "ok", rows |-> <<>>]
    IN  IF query_tokens = <<>> THEN {empty}
        ELSE IF ~LookupBinds(query_tokens)
             THEN {[status |-> "raised", rows |-> <<>>]}
        ELSE IF DOMAIN query_vector = {} THEN {empty}
        ELSE {[status |-> "ok", rows |-> s] :
                 s \in Ranked(ChunkScores(ct, tv, DOMAIN query_vector,
                                          query_mag), top_k)}

(***************************************************************************)
(* get_stats                                                               *)
(***************************************************************************)
\* avg_tokens is in hundredths
GetStatsValue(ct, idf) ==
    LET n     == Cardinality(ct)
        total == Sum([r \in ct |-> r.token_count], ct)
    IN  [files        |-> Cardinality({r.source_file : r \in ct}),
         chunks       |-> n,
         avg_tokens   |-> IF n = 0 \/ total = 0 THEN 0
                          ELSE (200 * total + n) \div (2 * n),
         unique_terms |-> Cardinality(idf)]

(***************************************************************************)
(* The store before anything is added                                      *)
(***************************************************************************)
NoCall == [op |-> "none", args |-> <<>>, status |-> "ok", value |-> <<>>]

EmptyStore ==
    /\ tbl_chunks = {}
    /\ tfidf_vectors = {}
    /\ idf_scores = {}
    /\ chunks_seq = 1
    /\ ret = NoCall
    /\ ncalls = 0
    /\ apc = "idle"
    /\ pend = <<>>
    /\ ppc = "idle"
    /\ files_to_process = <<>>
    /\ update_mode = "replace"
    /\ loaded_count = 0
    /\ clock = 0
    /\ indexed = {}

ChunkerIdle ==
    /\ text = <<>>
    /\ chunk_size = 0
    /\ overlap = 0
    /\ start = 0
    /\ chunks = <<>>
    /\ cpc = "idle"
    /\ segs = <<>>

(***************************************************************************)
(* chunk_markdown as a state machine                                       *)
(***************************************************************************)
InitChunk ==
    /\ text \in Texts
    /\ chunk_size \in (-1)..MaxChunkSize
    /\ overlap \in (-1)..MaxChunkSize
    /\ start = 0
    /\ chunks = <<>>
    /\ cpc = "call"
    /\ segs = <<>>
    /\ EmptyStore

\* normalization, validation, and the first test of the while condition
ChunkCall ==
    /\ cpc = "call"
    /\ text' = Normalize(text)
    /\ IF ~ValidParams(chunk_size, overlap)
       THEN cpc' = "error"
       ELSE cpc' = IF 0 < Len(Normalize(text)) THEN "loop" ELSE "done"
    /\ UNCHANGED <<chunk_size, overlap, start, chunks, segs>>
    /\ UNCHANGED <<storeVars, ret, ncalls, stepVars, mainVars>>

\* one iteration of the while loop
ChunkIter ==
    /\ cpc = "loop"
    /\ \A k \in 1..Len(segs) : segs[k].start # start
    /\ LET end   == SegmentEnd(text, start, chunk_size)
           chunk == Strip(PySlice(text, start, end))
           next  == NextStart(end, overlap)
       IN  /\ chunks' = IF chunk # <<>> THEN Append(chunks, chunk) ELSE chunks
           /\ start' = next
           /\ segs' = Append(segs, [start |-> start, end |-> end,
                                    lo |-> PyIndex(start, Len(text)),
                                    hi |-> PyIndex(end, Len(text)),
                                    emitted |-> chunk # <<>>])
           /\ cpc' = IF end >= Len(text) \/ next >= Len(text)
                     THEN "done" ELSE "loop"
    /\ UNCHANGED <<text, chunk_size, overlap>>
    /\ UNCHANGED <<storeVars, ret, ncalls, stepVars, mainVars>>

\* the loop is back at a cursor it has already run an iteration from: the
\* iteration is a function of the cursor alone, so the loop never exits
ChunkDiverge ==
    /\ cpc = "loop"
    /\ \E k \in 1..Len(segs) : segs[k].start = start
    /\ cpc' = "diverged"
    /\ UNCHANGED <<text, chunk_size, overlap, start, chunks, segs>>
    /\ UNCHANGED <<storeVars, ret, ncalls, stepVars, mainVars>>

NextChunk == ChunkCall \/ ChunkIter \/ ChunkDiverge

SpecChunk == InitChunk /\ [][NextChunk]_vars

(***************************************************************************)
(* chunk_markdown on texts longer than the search window: a run of letters *)
(* with up to three breaks in it (a blank, a full stop and a blank, or a   *)
(* blank line), and chunk sizes around the window's half-width             *)
(***************************************************************************)
LongLen == 105

\* where a break may begin: the start of the text, around the first
\* tentative ends and their windows' edges, and the end of the text
BreakOffsets == {0, 1, 30, 36, 49, 50, 51, 60, 100, 103}

BreakKinds == {"word", "sentence", "paragraph"}

Breaks == BreakOffsets \X BreakKinds

\* the character at 0-based offset i of the text with breaks bs
BreakChar(bs, i) ==
    IF \E b \in bs : b[2] = "paragraph" /\ i \in {b[1], b[1] + 1} THEN "\n"
    ELSE IF \E b \in bs : b[2] = "sentence" /\ i = b[1] THEN "."
    ELSE IF \E b \in bs : \/ (b[2] = "sentence" /\ i = b[1] + 1)
                           \/ (b[2] = "word" /\ i = b[1]) THEN " "
    ELSE "a"

LongText(bs) == [i \in 1..LongLen |-> BreakChar(bs, i - 1)]

LongTexts == {LongText({a, b, c}) : a \in Breaks, b \in Breaks, c \in Breaks}

\* (chunk_size, overlap): a chunk shorter than the window's half-width, one
\* as long, one that leaves 49 characters between cursors, and a longer one
LongParams == {<<40, 0>>, <<50, 0>>, <<50, 1>>, <<60, 10>>}

InitLong ==
    /\ text \in LongTexts
    /\ \E p \in LongParams : chunk_size = p[1] /\ overlap = p[2]
    /\ start = 0
    /\ chunks = <<>>
    /\ cpc = "call"
    /\ segs = <<>>
    /\ EmptyStore

SpecLong == InitLong /\ [][NextChunk]_vars

(***************************************************************************)
(* The service: add_markdown_file, search and get_stats called in any      *)
(* order on one MarkdownSemanticSearch                                     *)
(***************************************************************************)
Init == ChunkerIdle /\ EmptyStore

\* a call that never returned leaves nothing to run after it
Hung == ret.status = "hung"

AddMarkdownFile ==
    /\ ~Hung
    /\ ncalls < MaxAdds
    /\ \E file_path \in Paths, p \in AddParams :
           LET r == AddMarkdownFileResult(file_path, p[1], p[2], tbl_chunks,
                                          tfidf_vectors, idf_scores, chunks_seq)
           IN  /\ tbl_chunks' = r.tbl_chunks
               /\ tfidf_vectors' = r.tfidf_vectors
               /\ idf_scores' = r.idf_scores
               /\ chunks_seq' = r.chunks_seq
               /\ ret' = [op |-> "add_markdown_file",
                          args |-> <<file_path, p[1], p[2]>>,
                          status |-> r.status, value |-> <<>>]
    /\ ncalls' = ncalls + 1
    /\ UNCHANGED <<chunkVars, stepVars, mainVars>>

Search ==
    /\ ~Hung
    /\ \E query \in Queries, top_k \in 1..MaxTopK :
           \E out \in SearchOutcomes(query, top_k, tbl_chunks, tfidf_vectors,
                                     idf_scores) :
               ret' = [op |-> "search", args |-> <<query, top_k>>,
                       status |-> out.status,
                       value |-> [i \in 1..Len(out.rows) |->
                                     <<out.rows[i].chunk_text,
                                       out.rows[i].similarity,
                                       out.rows[i].source_file>>],
                       ids |-> [i \in 1..Len(out.rows) |-> out.rows[i].id]]
    /\ UNCHANGED <<storeVars, ncalls, chunkVars, stepVars, mainVars>>

GetStats ==
    /\ ~Hung
    /\ ret' = [op |-> "get_stats", args |-> <<>>, status |-> "ok",
               value |-> GetStatsValue(tbl_chunks, idf_scores)]
    /\ UNCHANGED <<storeVars, ncalls, chunkVars, stepVars, mainVars>>

Next == AddMarkdownFile \/ Search \/ GetStats

Spec == Init /\ [][Next]_vars

(***************************************************************************)
(* add_markdown_file statement by statement.  Every conn.execute is its    *)
(* own transaction (the code opens none), and any of them can raise: the   *)
(* exception leaves add_markdown_file with the statements run so far       *)
(* committed.  The program is single-threaded: search and get_stats run    *)
(* only between calls of add_markdown_file.                                *)
(***************************************************************************)
\* open, read, chunk_markdown, _tokenize, _calculate_tf_batch
AddBegin ==
    /\ apc = "idle"
    /\ ~Hung
    /\ ncalls < MaxAdds
    /\ \E file_path \in Paths, p \in AddParams :
           LET r == ChunkMarkdown(FileText(file_path), p[1], p[2])
               status == IF file_path \notin ExistingFiles THEN "raised"
                         ELSE IF r.status = "error" THEN "raised"
                         ELSE IF r.status = "diverged" THEN "hung"
                         ELSE "running"
           IN  /\ ret' = [op |-> "add_markdown_file",
                          args |-> <<file_path, p[1], p[2]>>,
                          status |-> status, value |-> <<>>]
               /\ IF status = "running"
                  THEN /\ pend' = [file_path |-> file_path, chunks |-> r.chunks,
                                   seq |-> chunks_seq, i |-> 1]
                       /\ apc' = IF r.chunks = <<>> THEN "update_idf"
                                 ELSE "insert_chunk"
                  ELSE UNCHANGED <<pend, apc>>
    /\ ncalls' = ncalls + 1
    /\ UNCHANGED <<storeVars, chunkVars, mainVars>>

\* one INSERT INTO chunks ... RETURNING id
AddInsertChunk ==
    /\ apc = "insert_chunk"
    /\ tbl_chunks' = tbl_chunks \cup
           {r \in ChunkRows(pend.file_path, pend.chunks, pend.seq) :
                r.chunk_index = pend.i - 1}
    /\ chunks_seq' = chunks_seq + 1
    /\ pend' = [pend EXCEPT !.i = pend.i + 1]
    /\ apc' = IF pend.i < Len(pend.chunks) THEN "insert_chunk"
              ELSE IF TfidfData(pend.chunks, pend.seq) # {} THEN "insert_tfidf"
              ELSE "update_idf"
    /\ UNCHANGED <<tfidf_vectors, idf_scores, ret, ncalls, chunkVars, mainVars>>

\* executemany(INSERT INTO tfidf_vectors ...)
AddInsertTfidf ==
    /\ apc = "insert_tfidf"
    /\ tfidf_vectors' = tfidf_vectors \cup TfidfData(pend.chunks, pend.seq)
    /\ apc' = "update_idf"
    /\ UNCHANGED <<tbl_chunks, idf_scores, chunks_seq, pend, ret, ncalls,
                   chunkVars, mainVars>>

\* _update_idf_scores: SELECT COUNT(*), then INSERT OR REPLACE INTO idf_scores
AddUpdateIdf ==
    /\ apc = "update_idf"
    /\ IF Cardinality(tbl_chunks) = 0
       THEN /\ apc' = "idle"
            /\ ret' = [ret EXCEPT !.status = "ok"]
            /\ UNCHANGED idf_scores
       ELSE /\ idf_scores' = InsertOrReplace(idf_scores,
                                 IdfAggregate(tfidf_vectors,
                                              Cardinality(tbl_chunks)))
            /\ apc' = "update_tfidf"
            /\ UNCHANGED ret
    /\ UNCHANGED <<tbl_chunks, tfidf_vectors, chunks_seq, pend, ncalls,
                   chunkVars, mainVars>>

\* _update_idf_scores: UPDATE tfidf_vectors SET tfidf = tf * idf
AddUpdateTfidf ==
    /\ apc = "update_tfidf"
    /\ tfidf_vectors' = UpdateTfidf(tfidf_vectors, idf_scores)
    /\ apc' = "idle"
    /\ ret' = [ret EXCEPT !.status = "ok"]
    /\ UNCHANGED <<tbl_chunks, idf_scores, chunks_seq, pend, ncalls,
                   chunkVars, mainVars>>

\* the statement about to run raises (the store cannot be written): the
\* exception propagates out of add_markdown_file, nothing is rolled back
AddRaise ==
    /\ apc # "idle"
    /\ apc' = "idle"
    /\ ret' = [ret EXCEPT !.status = "raised"]
    /\ UNCHANGED <<storeVars, pend, ncalls, chunkVars, mainVars>>

\* a reader, between two calls of add_markdown_file
ReadStats ==
    /\ apc = "idle"
    /\ ~Hung
    /\ ret' = [op |-> "get_stats", args |-> <<>>, status |-> "ok",
               value |-> GetStatsValue(tbl_chunks, idf_scores)]
    /\ UNCHANGED <<storeVars, ncalls, chunkVars, stepVars, mainVars>>

NextSteps ==
    \/ AddBegin
    \/ AddInsertChunk
    \/ AddInsertTfidf
    \/ AddUpdateIdf
    \/ AddUpdateTfidf
    \/ AddRaise
    \/ ReadStats

SpecSteps == Init /\ [][NextSteps]_vars

(***************************************************************************)
(* process_documents (main.py) over the SearchService it imports.          *)
(* SearchService.add_markdown_file(path, chunk_size, overlap, mode) and    *)
(* download_markdown_from_url are not among the sources: they are modelled *)
(* from the specification (has_source, remove_source, the update modes),   *)
(* over the engine of service.py.                                          *)
(***************************************************************************)
\* has_source(source)
HasSource(ct, source) == \E r \in ct : r.source_file = source

\* remove_source(source): the chunks of the source and their term weights
RemoveSource(ct, tv, source) ==
    [tbl_chunks |-> {r \in ct : r.source_file # source},
     tfidf_vectors |->
         {w \in tv : \A r \in ct : r.id = w.chunk_id => r.source_file # source}]

\* add_markdown_file with an update mode: "skipped" is the call returning False
ServiceAddResult(source, content, size, ov, mode, ct, tv, idf, seq) ==
    IF mode = "skip" /\ HasSource(ct, source)
    THEN [status |-> "skipped", tbl_chunks |-> ct, tfidf_vectors |-> tv,
          idf_scores |-> idf, chunks_seq |-> seq]
    ELSE IF mode = "replace" /\ HasSource(ct, source)
    THEN AddContentResult(source, content, size, ov,
                          RemoveSource(ct, tv, source).tbl_chunks,
                          RemoveSource(ct, tv, source).tfidf_vectors, idf, seq)
    ELSE AddContentResult(source, content, size, ov, ct, tv, idf, seq)

\* download_markdown_from_url: it raises, returns (None, None), or returns
\* the file name and the content
DownloadOutcomes(url) ==
    {[status |-> "raised"], [status |-> "none"],
     [status |-> "ok", filename |-> "a.md", content |-> FileText("a.md")]}

\* glob.glob(os.path.join(path, "**", "*.md"), recursive=True)
Glob(dir) == <<"docs/b.md">>

\* os.path.basename
Basename(path) == IF path = "docs/b.md" THEN "b.md" ELSE path

\* f"temp_{int(time.time()*1000)}_{filename}"
TempName(ms, filename) ==
    CASE filename = "a.md" ->
           <<"temp_0_a.md", "temp_1_a.md", "temp_2_a.md", "temp_3_a.md",
             "temp_4_a.md", "temp_5_a.md">>[ms + 1]
      [] filename = "b.md" ->
           <<"temp_0_b.md", "temp_1_b.md", "temp_2_b.md", "temp_3_b.md",
             "temp_4_b.md", "temp_5_b.md">>[ms + 1]

\* files_to_process for the inputs
RECURSIVE Expand(_)
Expand(inputs) ==
    IF inputs = <<>> THEN <<>>
    ELSE LET path == Head(inputs)
             here == IF path \in Urls THEN <<<<"url", path>>>>
                     ELSE IF path \in Dirs
                          THEN [i \in 1..Len(Glob(path)) |->
                                   <<"file", Glob(path)[i]>>]
                     ELSE IF path \in ExistingFiles THEN <<<<"file", path>>>>
                     ELSE <<>>
         IN  here \o Expand(Tail(inputs))

\* the call, up to the loop over files_to_process
ProcessDocuments ==
    /\ ppc = "idle"
    /\ ~Hung
    /\ \E inputs \in InputLists, mode \in {"replace", "skip"} :
           /\ ncalls + Len(Expand(inputs)) <= MaxAdds
           /\ IF inputs = <<>>
              THEN /\ ret' = [op |-> "process_documents",
                              args |-> <<inputs, mode>>,
                              status |-> "ok", value |-> 0]
                   /\ UNCHANGED <<ppc, files_to_process, update_mode,
                                  loaded_count>>
              ELSE /\ ppc' = "loop"
                   /\ files_to_process' = Expand(inputs)
                   /\ update_mode' = mode
                   /\ loaded_count' = 0
                   /\ ret' = [op |-> "process_documents",
                              args |-> <<inputs, mode>>,
                              status |-> "running", value |-> 0]
    /\ UNCHANGED <<storeVars, ncalls, clock, indexed, chunkVars, stepVars>>

\* one iteration of the loop, for a URL
ProcessUrl ==
    /\ ppc = "loop"
    /\ ~Hung
    /\ files_to_process # <<>>
    /\ Head(files_to_process)[1] = "url"
    /\ \E dl \in DownloadOutcomes(Head(files_to_process)[2]) :
           IF dl.status # "ok"
           THEN UNCHANGED <<storeVars, loaded_count, indexed, ret>>
           ELSE \E r \in {ServiceAddResult(dl.filename, dl.content, 500, 100,
                                           update_mode, tbl_chunks,
                                           tfidf_vectors, idf_scores,
                                           chunks_seq)} :
                    /\ tbl_chunks' = r.tbl_chunks
                    /\ tfidf_vectors' = r.tfidf_vectors
                    /\ idf_scores' = r.idf_scores
                    /\ chunks_seq' = r.chunks_seq
                    /\ loaded_count' = IF r.status \in {"ok", "skipped"}
                                       THEN loaded_count + 1 ELSE loaded_count
                    /\ indexed' = IF r.status = "ok"
                                  THEN indexed \cup {Head(files_to_process)[2]}
                                  ELSE indexed
                    /\ ret' = IF r.status = "hung"
                              THEN [ret EXCEPT !.status = "hung"] ELSE ret
    /\ files_to_process' = Tail(files_to_process)
    /\ ncalls' = ncalls + 1
    /\ UNCHANGED <<ppc, update_mode, clock, chunkVars, stepVars>>

\* one iteration of the loop, for a file: the clock is read for the name of
\* the temporary copy, and shutil.copy2 raises or copies
ProcessFile ==
    /\ ppc = "loop"
    /\ ~Hung
    /\ files_to_process # <<>>
    /\ Head(files_to_process)[1] = "file"
    /\ \E ms \in clock..(IF clock < MaxClock THEN clock + 1 ELSE clock),
          copied \in BOOLEAN :
           /\ clock' = ms
           /\ IF ~copied
              THEN UNCHANGED <<storeVars, loaded_count, indexed, ret>>
              ELSE \E path \in {Head(files_to_process)[2]} :
                   \E r \in {ServiceAddResult(TempName(ms, Basename(path)),
                                              FileText(path), 500, 100,
                                              update_mode, tbl_chunks,
                                              tfidf_vectors, idf_scores,
                                              chunks_seq)} :
                       /\ tbl_chunks' = r.tbl_chunks
                       /\ tfidf_vectors' = r.tfidf_vectors
                       /\ idf_scores' = r.idf_scores
                       /\ chunks_seq' = r.chunks_seq
                       /\ loaded_count' = IF r.status = "ok"
                                          THEN loaded_count + 1
                                          ELSE loaded_count
                       /\ indexed' = IF r.status = "ok"
                                     THEN indexed \cup {path} ELSE indexed
                       /\ ret' = IF r.status = "hung"
                                 THEN [ret EXCEPT !.status = "hung"] ELSE ret
    /\ files_to_process' = Tail(files_to_process)
    /\ ncalls' = ncalls + 1
    /\ UNCHANGED <<ppc, update_mode, chunkVars, stepVars>>

\* the loop is over: return loaded_count
ProcessReturn ==
    /\ ppc = "loop"
    /\ ~Hung
    /\ files_to_process = <<>>
    /\ ppc' = "idle"
    /\ ret' = [ret EXCEPT !.status = "ok", !.value = loaded_count]
    /\ UNCHANGED <<storeVars, ncalls, files_to_process, update_mode,
                   loaded_count, clock, indexed, chunkVars, stepVars>>

\* print_stats: get_stats between two calls of process_documents
PrintStats ==
    /\ ppc = "idle"
    /\ ~Hung
    /\ ret' = [op |-> "get_stats", args |-> <<>>, status |-> "ok",
               value |-> GetStatsValue(tbl_chunks, idf_scores)]
    /\ UNCHANGED <<storeVars, ncalls, chunkVars, stepVars, mainVars>>

NextMain ==
    \/ ProcessDocuments
    \/ ProcessUrl
    \/ ProcessFile
    \/ ProcessReturn
    \/ PrintStats

SpecMain == Init /\ [][NextMain]_vars

(***************************************************************************)
(* Claims about chunk_markdown (checked under SpecChunk)                   *)
(***************************************************************************)

\* the characters of the text that segment k holds: text[start:end] as sliced
Held(k) == {p \in 0..(Len(text) - 1) : segs[k].lo <= p /\ p < segs[k].hi}

\* C1: with valid parameters chunk_markdown terminates for every text: its
\* loop never comes back to a cursor it has already started an iteration
\* from (an iteration depends on the cursor alone, so coming back to one
\* means running forever).
C1_Terminates == cpc # "diverged"

\* C7: chunk_markdown fails with ValueError, having produced no chunk,
\* whenever chunk_size <= 0, overlap < 0 or overlap >= chunk_size, and it
\* never fails that way when chunk_size > 0 and 0 <= overlap < chunk_size.
C7_InvalidParameter ==
    cpc \notin {"idle", "call"} =>
        /\ (cpc = "error") <=>
               (chunk_size <= 0 \/ overlap < 0 \/ overlap >= chunk_size)
        /\ cpc = "error" => chunks = <<>> /\ segs = <<>>

C7_Witness ==
    cpc = "error" /\ chunk_size > 0 /\ overlap = chunk_size /\ Len(text) > 0

\* C8: once chunk_markdown has returned, every non-whitespace character of
\* the normalized text lies inside the segment of at least one emitted chunk,
\* and no segment starts after the end of the segment before it.
C8_Coverage ==
    cpc = "done" =>
        /\ \A p \in 0..(Len(text) - 1) :
               ~IsSpace(text[p + 1]) =>
                   \E k \in 1..Len(segs) : segs[k].emitted /\ p \in Held(k)
        /\ \A k \in 1..(Len(segs) - 1) : segs[k + 1].start <= segs[k].end

\* C9: two consecutive segments share at most `overlap` characters: the next
\* segment's cursor is exactly `overlap` before the snapped end of the
\* previous one, and the text it holds starts no earlier than that.
C9_OverlapBound ==
    \A k \in 1..(Len(segs) - 1) :
        /\ segs[k + 1].start = segs[k].end - overlap
        /\ segs[k + 1].lo >= segs[k].end - overlap
        /\ Cardinality(Held(k) \cap Held(k + 1)) <= overlap

C9_Witness ==
    /\ Len(segs) >= 3
    /\ overlap > 0
    /\ \E k \in 1..(Len(segs) - 1) :
           /\ segs[k].emitted /\ segs[k + 1].emitted
           /\ Cardinality(Held(k) \cap Held(k + 1)) = overlap

(***************************************************************************)
(* Claims about the boundary detection (checked under SpecLong)            *)
(***************************************************************************)

\* the tentative end of iteration k: min(start + chunk_size, text_len)
Tentative(k) == Min(segs[k].start + chunk_size, Len(text))

\* the match ends of the three classes in window w, highest priority first
ClassEnds(w) == <<ParagraphEnds(w, 1), SentenceEnds(w), WordEnds(w)>>

\* iteration k took its end from the window that starts at offset from: the
\* end is a match end of the first class that has a match in the window,
\* none of that class is closer to the tentative end, it is at most 50
\* characters from the tentative end, and it is the tentative end when no
\* class has a match
SnappedWithin(k, from) ==
    LET end == Tentative(k)
        w   == PySlice(text, from, Min(end + 50, Len(text)))
        cls == ClassEnds(w)
    IN  /\ Abs(segs[k].end - end) <= 50
        /\ IF \A i \in 1..3 : cls[i] = {}
           THEN segs[k].end = end
           ELSE \E i \in 1..3 :
                    /\ cls[i] # {}
                    /\ \A j \in 1..(i - 1) : cls[j] = {}
                    /\ (segs[k].end - from) \in cls[i]
                    /\ \A f \in cls[i] :
                           Abs(segs[k].end - end) <= Abs((from + f) - end)

\* C13 as claimed: when the tentative end is before the end of the text,
\* the end is snapped within the window [end-50, end+50] clamped to the
\* bounds of the text: to the closest match of the highest-priority class
\* that has a match there, at most 50 characters away, and left unchanged
\* when no class has a match.
C13_WindowInText ==
    \A k \in 1..Len(segs) :
        Tentative(k) < Len(text) =>
            SnappedWithin(k, Max(Tentative(k) - 50, 0))

\* C13 as amended: the same, the window being [max(end-50, start), end+50]
\* clamped to the end of the text: it never reaches back before the
\* cursor of the iteration.
C13_WindowFromCursor ==
    \A k \in 1..Len(segs) :
        Tentative(k) < Len(text) =>
            SnappedWithin(k, Max(Tentative(k) - 50, segs[k].start))

\* an iteration whose end was moved to a paragraph break although a blank
\* of the window is strictly closer, in a text that has another paragraph
\* break beyond the window
C13_Witness ==
    \E k \in 1..Len(segs) :
        LET end  == Tentative(k)
            from == Max(end - 50, segs[k].start)
            w    == PySlice(text, from, Min(end + 50, Len(text)))
        IN  /\ end < Len(text)
            /\ segs[k].start >= 0
            /\ segs[k].end # end
            /\ (segs[k].end - from) \in ParagraphEnds(w, 1)
            /\ \E f \in WordEnds(w) :
                   Abs((from + f) - end) < Abs(segs[k].end - end)
            /\ \E g \in ParagraphEnds(text, 1) : g > end + 50

\* C14: when chunk_size - overlap >= 50, every iteration that does not
\* leave the loop moves the cursor forward by one character at least and
\* never to a negative offset, the loop never comes back to a cursor, and
\* it runs at most as many iterations as the text has characters.
C14_CursorAdvances ==
    (cpc \in {"loop", "done", "diverged"} /\ chunk_size - overlap >= 50) =>
        /\ \A k \in 1..(Len(segs) - 1) :
               /\ segs[k + 1].start >= segs[k].start + 1
               /\ segs[k + 1].start >= 0
        /\ (cpc = "loop" /\ segs # <<>>) =>
               /\ start >= segs[Len(segs)].start + 1
               /\ start >= 0
        /\ cpc # "diverged"
        /\ Len(segs) <= Len(text)

\* a finished run of three iterations or more, one of which moved the cursor
\* by exactly one character, with chunk_size - overlap = 50
C14_Witness ==
    /\ cpc = "done"
    /\ chunk_size - overlap = 50
    /\ Len(segs) >= 3
    /\ \E k \in 1..(Len(segs) - 1) : segs[k + 1].start = segs[k].start + 1

(***************************************************************************)
(* Claims about the service (checked under Spec)                           *)
(***************************************************************************)

\* the terms of a chunk row's token stream
ChunkTerms(c) == TermsOf(Tokenize(c.chunk_text))

\* the chunk rows whose token stream contains t
ChunksWith(t) == {c \in tbl_chunks : t \in ChunkTerms(c)}

\* the last call was a search, made when exactly one document was indexed,
\* whose query is one term that exactly one chunk contains
OneDocOneTermSearch ==
    /\ ret.op = "search"
    /\ ncalls = 1
    /\ tbl_chunks # {}
    /\ Len(Tokenize(ret.args[1])) = 1
    /\ Cardinality(ChunksWith(Tokenize(ret.args[1])[1])) = 1

\* the term has document_frequency 1 and the search returned the one chunk
\* that contains it, with a strictly positive similarity
HitsTheOneChunk ==
    LET t == Tokenize(ret.args[1])[1]
        c == CHOOSE x \in tbl_chunks : t \in ChunkTerms(x)
    IN  /\ \E r \in idf_scores : r.term = t /\ r.doc_frequency = 1
        /\ ret.status = "ok"
        /\ \E i \in 1..Len(ret.value) :
               /\ ret.ids[i] = c.id
               /\ ret.value[i][1] = c.chunk_text
               /\ ret.value[i][2] > 0

\* C3 as claimed: after indexing a single document, whatever number of
\* chunks it yields, a term that appears in exactly one chunk has
\* document_frequency 1 and a search for just that term returns that chunk
\* with a strictly positive similarity.
C3_AnyDocument == OneDocOneTermSearch => HitsTheOneChunk

\* C3 as amended: the same, for a document that yields at least two chunks.
C3_TwoChunksOrMore ==
    (OneDocOneTermSearch /\ Cardinality(tbl_chunks) >= 2) => HitsTheOneChunk

C3_Witness ==
    /\ OneDocOneTermSearch
    /\ Cardinality(tbl_chunks) >= 3
    /\ HitsTheOneChunk

\* C4: for every query whose token sequence is non-empty, a repeated term
\* included, search completes and returns a sequence of triples.
C4_SearchCompletes ==
    (ret.op = "search" /\ Tokenize(ret.args[1]) # <<>>) => ret.status = "ok"

\* C5: after every completed add_markdown_file, a term has an IDF row if and
\* only if it has a tfidf_vectors entry, it has one row only, that row's
\* doc_frequency is the number of chunks whose token stream contains the
\* term, and its idf is ln of the number of chunk rows over doc_frequency.
C5_IdfIsAggregate ==
    /\ {r.term : r \in idf_scores} = {r.term : r \in tfidf_vectors}
    /\ \A r, s \in idf_scores : r.term = s.term => r = s
    /\ \A r \in idf_scores :
           /\ r.doc_frequency = Cardinality(ChunksWith(r.term))
           /\ r.idf_score = LnRatio(Cardinality(tbl_chunks), r.doc_frequency)

C5_Witness ==
    /\ ncalls = 2
    /\ ret.op = "add_markdown_file" /\ ret.status = "ok"
    /\ Cardinality({c.source_file : c \in tbl_chunks}) = 2
    /\ \E r \in idf_scores :
           r.doc_frequency = 2 /\ r.doc_frequency < Cardinality(tbl_chunks)
    /\ \E c \in tbl_chunks : c.token_count = 0

\* C10: search returns an empty sequence, without raising, when the query
\* tokenizes to nothing and when no term of the query has a row in
\* idf_scores (an empty corpus included).
C10_EmptyNotError ==
    (/\ ret.op = "search"
     /\ \A t \in TermsOf(Tokenize(ret.args[1])) :
            \A r \in idf_scores : r.term # t)
        => (ret.status = "ok" /\ ret.value = <<>>)

\* the terms of the last search's query that have a row in idf_scores
SurvivingTerms ==
    {t \in TermsOf(Tokenize(ret.args[1])) : \E r \in idf_scores : r.term = t}

\* the magnitude of the last search's query vector
QueryMagnitude ==
    LET tokens == Tokenize(ret.args[1])
        w(t)   == TfTimes(QueryTf(tokens)[t], IdfOf(idf_scores, t))
    IN  Sqrt(Sum([t \in SurvivingTerms |-> w(t) * w(t)], SurvivingTerms))

\* the chunks the last search had to choose from, each with its similarity
Candidates ==
    ChunkScores(tbl_chunks, tfidf_vectors, SurvivingTerms, QueryMagnitude)

\* C11: a search that returns, called with a positive top_k, returns at most
\* top_k triples in non-increasing order of similarity; every returned chunk
\* has a term-weight entry, with a non-zero weight, for a query term that has
\* an IDF row; and no chunk left out has a strictly higher similarity than
\* a returned one.
C11_TopKOrdered ==
    (ret.op = "search" /\ ret.status = "ok" /\ ret.args[2] > 0) =>
        /\ Len(ret.value) <= ret.args[2]
        /\ \A i \in 1..(Len(ret.value) - 1) :
               ret.value[i][2] >= ret.value[i + 1][2]
        /\ \A i \in 1..Len(ret.value) :
               /\ \E c \in tbl_chunks :
                      /\ c.id = ret.ids[i]
                      /\ ret.value[i][1] = c.chunk_text
                      /\ ret.value[i][3] = c.source_file
               /\ \E r \in tfidf_vectors :
                      /\ r.chunk_id = ret.ids[i]
                      /\ r.term \in SurvivingTerms
                      /\ r.tfidf # 0
        /\ \A c \in Candidates :
               (\A i \in 1..Len(ret.value) : ret.ids[i] # c.id) =>
                   \A i \in 1..Len(ret.value) : c.similarity <= ret.value[i][2]

C11_Witness ==
    /\ ret.op = "search" /\ ret.status = "ok"
    /\ Len(ret.value) = ret.args[2]
    /\ \E c \in Candidates :
           /\ \A i \in 1..Len(ret.value) : ret.ids[i] # c.id
           /\ c.similarity < ret.value[Len(ret.value)][2]

(***************************************************************************)
(* Claims about add_markdown_file's statements (checked under SpecSteps)   *)
(***************************************************************************)

\* chunk rows, term weights and IDF rows describe one and the same corpus
StoreConsistent ==
    /\ \A c \in tbl_chunks : \A t \in ChunkTerms(c) :
           \E r \in tfidf_vectors : r.chunk_id = c.id /\ r.term = t
    /\ C5_IdfIsAggregate
    /\ \A r \in tfidf_vectors : r.tfidf = TfTimes(r.tf, IdfOf(idf_scores, r.term))

\* C2: chunk insertion and the IDF/tfidf recomputation are one unit: whenever
\* a reader can run (between calls of add_markdown_file, also after a call
\* that left through an exception), the chunk rows, the term weights and the
\* IDF rows describe the same corpus.
C2_AddIsOneUnit == apc = "idle" => StoreConsistent

(***************************************************************************)
(* Claims about process_documents (checked under SpecMain)                 *)
(***************************************************************************)

\* C6: adding a source in skip mode that process_documents has already
\* indexed leaves the chunk count and the number of unique terms that
\* get_stats reports unchanged.
C6_SkipIsIdempotent ==
    [][(/\ ppc = "loop"
        /\ files_to_process # <<>>
        /\ update_mode = "skip"
        /\ Head(files_to_process)[2] \in indexed)
          => (/\ GetStatsValue(tbl_chunks', idf_scores').chunks
                   = GetStatsValue(tbl_chunks, idf_scores).chunks
              /\ GetStatsValue(tbl_chunks', idf_scores').unique_terms
                   = GetStatsValue(tbl_chunks, idf_scores).unique_terms)]_vars

\* the source name the loop step hands to add_markdown_file
StepSource ==
    IF Head(files_to_process)[1] = "url" THEN "a.md"
    ELSE TempName(clock', Basename(Head(files_to_process)[2]))

\* C12: in a process_documents call over several inputs every entry of
\* files_to_process gets its turn whatever happened to the ones before it,
\* a step never removes rows of another source, loaded_count goes up by one
\* exactly in the steps that indexed a document (new chunk ids were
\* allocated), and the call returns loaded_count.
C12_FailuresIsolated ==
    [][(ppc = "loop" /\ ~Hung) =>
          IF files_to_process = <<>>
          THEN ret'.value = loaded_count
          ELSE /\ files_to_process' = Tail(files_to_process)
               /\ \A c \in tbl_chunks :
                      c.source_file # StepSource => c \in tbl_chunks'
               /\ loaded_count' \in {loaded_count, loaded_count + 1}
               /\ (loaded_count' = loaded_count + 1)
                      <=> (chunks_seq' > chunks_seq)]_vars

====
